---- MODULE Spec2Model ----
(***************************************************************************)
(* QTicTacToeEnv (3-QuantumTicTacToe/qttt.py): a tic-tac-toe board whose   *)
(* tiles are qubits.  The environment object holds the qubit count, the    *)
(* move table, the table of final outcomes, the board circuit and the move *)
(* log.  The circuit is the only record of the register: the amplitude     *)
(* vector is recomputed from it at every observation.                      *)
(*                                                                         *)
(* Amplitudes are kept exactly.  Every gate of the move table (H, X, CX)   *)
(* has real entries in {0, 1, -1} / sqrt(2)^k, so an amplitude vector is   *)
(* written  v[i] / sqrt(2)^e  with integer v[i] and e >= 0, in lowest      *)
(* terms.  A snapshot (np.around(..., decimals=2)) is a vector of integer  *)
(* hundredths.                                                             *)
(***************************************************************************)
EXTENDS Integers, Sequences, FiniteSets, TLC

VARIABLES qnum, moves, endings_lookuptable, circuit, status_id, call

vars == <<qnum, moves, endings_lookuptable, circuit, status_id, call>>

(***************************************************************************)
(* Bounds of the exploration.                                              *)
(***************************************************************************)
\* grid_size is drawn from -MaxGrid .. MaxGrid
MaxGrid == 2
\* register operations are explored on boards of at most MaxQubits qubits
MaxQubits == 4
\* calls of move, step and collapse_board after construction or a reset
MaxCalls == 2

Pow2(n) == 2 ^ n

Abs(x) == IF x < 0 THEN -x ELSE x

(***************************************************************************)
(* Python string conversions, on sequences of one-character strings.       *)
(***************************************************************************)
RECURSIVE BinStr(_)
\* bin(x)[2:] for x >= 0
BinStr(x) ==
    IF x < 2 THEN << (IF x = 1 THEN "1" ELSE "0") >>
    ELSE BinStr(x \div 2) \o << (IF x % 2 = 1 THEN "1" ELSE "0") >>

\* s.zfill(w): pads on the left, never truncates
ZFill(s, w) ==
    IF Len(s) >= w THEN s ELSE [k \in 1..(w - Len(s)) |-> "0"] \o s

RECURSIVE ParseBin(_)
\* int(s, 2) for a non-empty string of binary digits
ParseBin(s) ==
    IF Len(s) = 0 THEN 0
    ELSE 2 * ParseBin(SubSeq(s, 1, Len(s) - 1)) + (IF s[Len(s)] = "1" THEN 1 ELSE 0)

DecDigit(n) == <<"0", "1", "2", "3", "4", "5", "6", "7", "8", "9">>[n + 1]

RECURSIVE DecStr(_)
DecStr(n) == IF n < 10 THEN <<DecDigit(n)>> ELSE DecStr(n \div 10) \o <<DecDigit(n % 10)>>

\* "{}-".format(action)
FormatAction(action) ==
    (IF action < 0 THEN <<"-">> \o DecStr(-action) ELSE DecStr(action)) \o <<"-">>

\* int(np.sqrt(n))
ISqrt(n) == CHOOSE d \in 0..n : d * d <= n /\ n < (d + 1) * (d + 1)

(***************************************************************************)
(* _init_moves_dict                                                        *)
(***************************************************************************)
\* the pairs a double loop without the skip of c = t would give
Permutations2Unshifted(n) ==
    [k \in 1..(n * (n - 1)) |-> <<(k - 1) \div (n - 1), (k - 1) % (n - 1)>>]

\* permutations(list(range(n)), 2), in the order itertools yields them
Permutations2(n) ==
    [k \in 1..(n * (n - 1)) |->
        LET c == (k - 1) \div (n - 1)
            r == (k - 1) % (n - 1)
        IN  <<c, IF r < c THEN r ELSE r + 1>>]

\* the table with the X of qubit q placed on the next qubit
InitMovesDictShiftedX(n) ==
    LET perms == Permutations2(n)
    IN  [mv_indx \in 0..(2 * n + Len(perms) - 1) |->
            IF mv_indx < 2 * n
            THEN IF mv_indx % 2 = 0 THEN << <<mv_indx \div 2>>, "h" >>
                 ELSE << <<(mv_indx \div 2 + 1) % n>>, "x" >>
            ELSE << perms[mv_indx - 2 * n + 1], "cx" >>]

\* a move is the tuple (qubits, gate)
InitMovesDict(n) ==
    LET perms == Permutations2(n)
    IN  [mv_indx \in 0..(2 * n + Len(perms) - 1) |->
            IF mv_indx < 2 * n
            THEN << <<mv_indx \div 2>>, IF mv_indx % 2 = 0 THEN "h" ELSE "x" >>
            ELSE << perms[mv_indx - 2 * n + 1], "cx" >>]

(***************************************************************************)
(* _win_check and _init_outcomes_dict                                      *)
(***************************************************************************)
RECURSIVE ScanLinesNoCancel(_, _, _, _, _)
\* the loop without the two early returns: the last complete line wins
ScanLinesNoCancel(lines, k, cond_1, cond_2, winner) ==
    IF k > Len(lines) THEN winner
    ELSE IF lines[k] = cond_1 THEN ScanLinesNoCancel(lines, k + 1, cond_1, cond_2, 1)
    ELSE IF lines[k] = cond_2 THEN ScanLinesNoCancel(lines, k + 1, cond_1, cond_2, 2)
    ELSE ScanLinesNoCancel(lines, k + 1, cond_1, cond_2, winner)

RECURSIVE ScanLines(_, _, _, _, _)
\* the loop over [*rows, *cols, *diags], from line k on, with the winner so far
ScanLines(lines, k, cond_1, cond_2, winner) ==
    IF k > Len(lines) THEN winner
    ELSE IF lines[k] = cond_1
         THEN IF winner = 0 \/ winner = 1
              THEN ScanLines(lines, k + 1, cond_1, cond_2, 1)
              ELSE 0
         ELSE IF lines[k] = cond_2
              THEN IF winner = 0 \/ winner = 2
                   THEN ScanLines(lines, k + 1, cond_1, cond_2, 2)
                   ELSE 0
              ELSE ScanLines(lines, k + 1, cond_1, cond_2, winner)

\* _win_check(board) on a board of n qubits
WinCheck(board, n) ==
    LET d == ISqrt(n)
        rows == [i \in 1..d |-> SubSeq(board, (i - 1) * d + 1, i * d)]
        cols == [j \in 1..d |-> [i \in 1..d |-> rows[i][j]]]
        diags == << [i \in 1..d |-> rows[i][i]], [i \in 1..d |-> rows[i][d - i + 1]] >>
        cond_1 == ZFill(BinStr(0), d)
        cond_2 == ZFill(BinStr(Pow2(d) - 1), d)
    IN  ScanLines(rows \o cols \o diags, 1, cond_1, cond_2, 0)

InitOutcomesDict(n) ==
    LET all_states == [x \in 1..Pow2(n) |-> ZFill(BinStr(x - 1), n)]
        judged == [k \in 1..Len(all_states) |->
                      <<WinCheck(all_states[k], n), ParseBin(all_states[k])>>]
        Of(w) == LET won(j) == j[1] = w
                     sel == SelectSeq(judged, won)
                 IN  [k \in 1..Len(sel) |-> sel[k][2]]
    IN  [w \in {0, 1, 2} |-> Of(w)]

InList(x, list) == \E k \in 1..Len(list) : list[k] = x

\* the value check_end returns
CheckEndValue(board_state) ==
    IF InList(board_state, endings_lookuptable[1]) THEN 1
    ELSE IF InList(board_state, endings_lookuptable[2]) THEN 2
    ELSE 0

(***************************************************************************)
(* __init__                                                                *)
(***************************************************************************)
\* QuantumCircuit(qubits, clbits) with no instruction
QuantumCircuit(clbits) == [clbits |-> clbits, ops |-> <<>>]

GridSizes == (-MaxGrid)..MaxGrid

\* the object __init__(grid_size) leaves behind
Constructed(grid_size) ==
    /\ qnum = grid_size * grid_size
    /\ circuit = QuantumCircuit(0)
    /\ moves = InitMovesDict(qnum)
    /\ endings_lookuptable = InitOutcomesDict(qnum)
    /\ status_id = <<>>
    /\ call = [op |-> "__init__", arg |-> grid_size, error |-> "", result |-> "self"]

\* spaces.Discrete(0) is refused by the gym releases that assert n > 0 and
\* accepted by the older ones: both outcomes are kept for grid_size = 0
NotConstructed(grid_size) ==
    /\ grid_size = 0
    /\ qnum = 0
    /\ circuit = QuantumCircuit(0)
    /\ moves = InitMovesDict(0)
    /\ endings_lookuptable = [w \in {0, 1, 2} |-> <<>>]
    /\ status_id = <<>>
    /\ call = [op |-> "__init__", arg |-> grid_size, error |-> "AssertionError",
               result |-> "none"]

Init == \E grid_size \in GridSizes : Constructed(grid_size) \/ NotConstructed(grid_size)

Alive == ~(call.op = "__init__" /\ call.error # "")

(***************************************************************************)
(* The register.  Qubit q is bit q of a basis index (qiskit's order).      *)
(***************************************************************************)
Bit(i, q) == (i \div Pow2(q)) % 2

Flip(i, q) == IF Bit(i, q) = 0 THEN i + Pow2(q) ELSE i - Pow2(q)

Indices(n) == 0..(Pow2(n) - 1)

\* A register is [e, v]: v maps every index of nonzero amplitude to an integer
\* and the amplitude of index i is Amp(psi, i) / sqrt(2)^e
Amp(psi, i) == IF i \in DOMAIN psi.v THEN psi.v[i] ELSE 0

\* |0...0>, the state every simulation of a circuit starts from
ZeroState == [e |-> 0, v |-> [i \in {0} |-> 1]]

RECURSIVE Lowest(_)
\* v / sqrt(2)^e in lowest terms
Lowest(psi) ==
    IF psi.e >= 2 /\ \A i \in DOMAIN psi.v : psi.v[i] % 2 = 0
    THEN Lowest([e |-> psi.e - 2, v |-> [i \in DOMAIN psi.v |-> psi.v[i] \div 2]])
    ELSE psi

\* HGate on qubit q
ApplyH(psi, q) ==
    LET cand == DOMAIN psi.v \cup {Flip(i, q) : i \in DOMAIN psi.v}
        amp(i) == IF Bit(i, q) = 0 THEN Amp(psi, i) + Amp(psi, Flip(i, q))
                  ELSE Amp(psi, Flip(i, q)) - Amp(psi, i)
    IN  Lowest([e |-> psi.e + 1, v |-> [i \in {j \in cand : amp(j) # 0} |-> amp(i)]])

\* XGate on qubit q
ApplyX(psi, q) ==
    [psi EXCEPT !.v = [i \in {Flip(j, q) : j \in DOMAIN psi.v} |-> psi.v[Flip(i, q)]]]

\* the index CXGate on control c and target t exchanges index i with
CXPartner(i, c, t) == IF Bit(i, c) = 1 THEN Flip(i, t) ELSE i

\* CXGate on control c, target t
ApplyCX(psi, c, t) ==
    [psi EXCEPT !.v = [i \in {CXPartner(j, c, t) : j \in DOMAIN psi.v} |->
                          psi.v[CXPartner(i, c, t)]]]

\* one gate instruction of the circuit
ApplyGate(psi, ins) ==
    IF ins.gate = "h" THEN ApplyH(psi, ins.qargs[1])
    ELSE IF ins.gate = "x" THEN ApplyX(psi, ins.qargs[1])
    ELSE ApplyCX(psi, ins.qargs[1], ins.qargs[2])

\* the register after a measurement of all qubits that read index i
Collapsed(psi, i) == [e |-> 0, v |-> [j \in {i} |-> IF psi.v[i] < 0 THEN -1 ELSE 1]]

\* the runs of one instruction from one branch; a branch is the register and
\* the indices read by the measurements so far
RunOne(b, ins) ==
    IF ins.gate = "measure"
    THEN {[psi |-> Collapsed(b.psi, i), outs |-> Append(b.outs, i)] :
             i \in DOMAIN b.psi.v}
    ELSE {[psi |-> ApplyGate(b.psi, ins), outs |-> b.outs]}

RECURSIVE RunOps(_, _)
\* every run of the instructions ops from the branches bs
RunOps(bs, ops) ==
    IF Len(ops) = 0 THEN bs
    ELSE RunOps(UNION {RunOne(b, Head(ops)) : b \in bs}, Tail(ops))

\* every run of a circuit by a simulator backend (one shot)
Run(circ) == RunOps({[psi |-> ZeroState, outs |-> <<>>]}, circ.ops)

RECURSIVE SqrtSearch(_, _, _)
\* the largest s in lo..hi with s * s <= n
SqrtSearch(n, lo, hi) ==
    IF lo = hi THEN lo
    ELSE LET mid == (lo + hi + 1) \div 2
         IN  IF mid * mid <= n THEN SqrtSearch(n, mid, hi) ELSE SqrtSearch(n, lo, mid - 1)

\* num / den rounded to the nearest integer, halves to the even one (np.around)
RoundHalfEven(num, den) ==
    LET q == num \div den
        r == num % den
    IN  IF 2 * r < den THEN q
        ELSE IF 2 * r > den THEN q + 1
        ELSE IF q % 2 = 0 THEN q ELSE q + 1

\* a / sqrt(2)^e cut to two decimals instead of rounded
Round2Truncate(a, e) ==
    LET k == e \div 2
        mag == IF e % 2 = 0 THEN (100 * Abs(a)) \div Pow2(k)
               ELSE SqrtSearch((20000 * a * a) \div Pow2(2 * k + 2), 0, 150 * Abs(a))
    IN  IF a < 0 THEN -mag ELSE mag

\* np.around(a / sqrt(2)^e, decimals=2), in hundredths
Round2(a, e) ==
    LET k == e \div 2
        mag == IF a = 0 THEN 0
               ELSE IF e % 2 = 0
               THEN RoundHalfEven(100 * Abs(a), Pow2(k))
               ELSE (SqrtSearch((80000 * a * a) \div Pow2(2 * k + 2), 0, 150 * Abs(a)) + 1) \div 2
    IN  IF a < 0 THEN -mag ELSE mag

\* np.around(output_state, decimals=2)
Around(psi) == [i \in Indices(qnum) |-> Round2(Amp(psi, i), psi.e)]

\* the values _get_statevec can return for a circuit
GetStatevec(circ) == {Around(b.psi) : b \in Run(circ)}

\* the key of get_counts(): one group per classical register, the newest first
CountsKey(circ, outs) ==
    LET n == Len(outs)
        meas == [k \in 1..n |-> ZFill(BinStr(outs[n - k + 1]), qnum)]
        creg == IF circ.clbits > 0 THEN << [k \in 1..circ.clbits |-> "0"] >> ELSE <<>>
        groups == meas \o creg
        RECURSIVE Join(_)
        Join(k) == IF k > Len(groups) THEN <<>>
                   ELSE IF k = Len(groups) THEN groups[k]
                   ELSE groups[k] \o <<" ">> \o Join(k + 1)
    IN  Join(1)

\* circuit.measure_all()
MeasureAll(circ) == [circ EXCEPT !.ops = Append(@, [gate |-> "measure", qargs |-> <<>>])]

\* the key read with qubit 0 first
CollapsedStateReversed(key) ==
    ParseBin([k \in 1..qnum |-> SubSeq(key, 1, qnum)[qnum - k + 1]])

\* int(list(counts.keys())[0][:self.qnum], 2)
CollapsedState(key) == ParseBin(SubSeq(key, 1, qnum))

\* the number of entries of the move log
NumLogged(log) ==
    Cardinality({k \in 2..Len(log) : log[k] = "-" /\ log[k - 1] # "-"})

NumMeasures(circ) == Cardinality({k \in 1..Len(circ.ops) : circ.ops[k].gate = "measure"})

\* the calls of move, step and collapse_board since construction or the last reset
NumCalls == NumLogged(status_id) + NumMeasures(circuit)

\* the register operations are explored on boards of 1 .. MaxQubits qubits
Playable == Alive /\ qnum >= 1 /\ qnum <= MaxQubits

StepReward == [num |-> -1, den |-> 10]

(***************************************************************************)
(* move, step, reset, collapse_board                                       *)
(***************************************************************************)
\* status_id after move(action)
MoveLog(action) == status_id \o FormatAction(action)

\* the gate put in front of the circuit
MoveCircuitPrepend(action) ==
    [circuit EXCEPT !.ops = <<[gate |-> moves[action][2], qargs |-> moves[action][1]]>> \o @]

\* the circuit after move(action), action a key of the move table
MoveCircuit(action) ==
    [circuit EXCEPT !.ops = Append(@, [gate |-> moves[action][2], qargs |-> moves[action][1]])]

\* identifiers tried: every key of the move table and the first integer that is no key
Actions == (DOMAIN moves) \cup {Cardinality(DOMAIN moves)}

move(action) ==
    /\ Playable
    /\ NumCalls < MaxCalls
    /\ status_id' = MoveLog(action)
    /\ IF action \in DOMAIN moves
       THEN /\ circuit' = MoveCircuit(action)
            /\ call' = [op |-> "move", arg |-> action, error |-> "", result |-> "none"]
       ELSE /\ circuit' = circuit
            /\ call' = [op |-> "move", arg |-> action, error |-> "KeyError",
                        result |-> "none"]
    /\ UNCHANGED <<qnum, moves, endings_lookuptable>>

step(action) ==
    /\ Playable
    /\ NumCalls < MaxCalls
    /\ status_id' = MoveLog(action)
    /\ IF action \in DOMAIN moves
       THEN /\ circuit' = MoveCircuit(action)
            /\ \E new_state \in GetStatevec(circuit') :
                  call' = [op |-> "step", arg |-> action, error |-> "",
                           result |-> [new_state |-> new_state, reward |-> StepReward,
                                       done |-> FALSE]]
       ELSE /\ circuit' = circuit
            /\ call' = [op |-> "step", arg |-> action, error |-> "KeyError",
                        result |-> "none"]
    /\ UNCHANGED <<qnum, moves, endings_lookuptable>>

\* the circuit of a reset that forgets the H gates
ResetCircuitBare == [clbits |-> qnum, ops |-> <<>>]

\* the circuit reset builds: qnum classical bits, an H on every qubit
ResetCircuit ==
    [clbits |-> qnum, ops |-> [k \in 1..qnum |-> [gate |-> "h", qargs |-> <<k - 1>>]]]

reset ==
    /\ Playable
    /\ circuit' = ResetCircuit
    /\ status_id' = <<>>
    /\ \E snapshot \in GetStatevec(circuit') :
          call' = [op |-> "reset", arg |-> "none", error |-> "", result |-> snapshot]
    /\ UNCHANGED <<qnum, moves, endings_lookuptable>>

collapse_board ==
    /\ Playable
    /\ NumCalls < MaxCalls
    /\ circuit' = MeasureAll(circuit)
    /\ \E b \in Run(circuit') :
          call' = [op |-> "collapse_board", arg |-> "none", error |-> "",
                   result |-> CollapsedState(CountsKey(circuit', b.outs))]
    /\ status_id' = status_id
    /\ UNCHANGED <<qnum, moves, endings_lookuptable>>

Move == \E action \in Actions : move(action)

Step == \E action \in Actions : step(action)

(***************************************************************************)
(* check_end                                                               *)
(***************************************************************************)
check_end(board_state) ==
    /\ Alive
    /\ call' = [op |-> "check_end", arg |-> board_state, error |-> "",
                result |-> CheckEndValue(board_state)]
    /\ UNCHANGED <<qnum, moves, endings_lookuptable, circuit, status_id>>

CheckEnd == \E board_state \in 0..(Pow2(qnum) - 1) : check_end(board_state)

\* a session of moves: gates are played, the board is observed and collapsed
Next == Step \/ Move \/ reset \/ collapse_board

Spec == Init /\ [][Next]_vars

\* the end of a game: the board is collapsed and the outcome looked up
NextOutcome == CheckEnd \/ reset \/ collapse_board

OutcomeSpec == Init /\ [][NextOutcome]_vars

(***************************************************************************)
(* Notions the properties are stated with.                                 *)
(***************************************************************************)
Built == call.op # "__init__" \/ call.error = ""

\* the linear size of the board that was built
Dim == ISqrt(qnum)

\* the cell in row r, column c (from 0) of the row-major grid of the
\* zero-padded binary string of index i
Cell(i, r, c) == Bit(i, qnum - 1 - (r * Dim + c))

\* the rows, the columns and the two diagonals, as sets of cells
GridLines ==
    {{<<r, c>> : c \in 0..(Dim - 1)} : r \in 0..(Dim - 1)}
    \cup {{<<r, c>> : r \in 0..(Dim - 1)} : c \in 0..(Dim - 1)}
    \cup {{<<r, r>> : r \in 0..(Dim - 1)}, {<<r, Dim - 1 - r>> : r \in 0..(Dim - 1)}}

HasLine(i, bit) == \E line \in GridLines : \A rc \in line : Cell(i, rc[1], rc[2]) = bit

\* the label the rule of the outcome table gives index i
RuleLabel(i) ==
    IF HasLine(i, 0) /\ HasLine(i, 1) THEN 0
    ELSE IF HasLine(i, 0) THEN 1
    ELSE IF HasLine(i, 1) THEN 2
    ELSE 0

\* the labels under which the table holds index i
LabelsOf(i) == {w \in {0, 1, 2} : InList(i, endings_lookuptable[w])}

Occurrences(i, list) == Cardinality({k \in 1..Len(list) : list[k] = i})

RECURSIVE SumSqOn(_, _)
\* the sum of the squares of f over the set S
SumSqOn(f, S) ==
    IF S = {} THEN 0
    ELSE LET i == CHOOSE j \in S : TRUE
         IN  f[i] * f[i] + SumSqOn(f, S \ {i})

\* the sum of the squares of a snapshot
SumSq(f) == SumSqOn(f, {i \in DOMAIN f : f[i] # 0})

\* the equal superposition: every amplitude 1 / sqrt(2^qnum)
Uniform(psi) == psi.e = qnum /\ \A i \in Indices(qnum) : Amp(psi, i) = 1

\* the registers a sequence of instructions can leave
Registers(ops) == {b.psi : b \in RunOps({[psi |-> ZeroState, outs |-> <<>>]}, ops)}

NoMeasure(ops) == \A k \in 1..Len(ops) : ops[k].gate # "measure"

\* ops without its last k instructions
DropLast(ops, k) == SubSeq(ops, 1, Len(ops) - k)

\* |v / sqrt(2)^e - r / 100| <= 0.005
WithinHalfCent(v, e, r) ==
    /\ (r > 0 => v > 0) /\ (r < 0 => v < 0)
    /\ (2 * Abs(r) - 1 > 0 =>
           (2 * Abs(r) - 1) * (2 * Abs(r) - 1) * Pow2(e) <= 40000 * v * v)
    /\ 40000 * v * v <= (2 * Abs(r) + 1) * (2 * Abs(r) + 1) * Pow2(e)

Played == call.op \in {"move", "step"} /\ call.error = ""

C2_MoveTable ==
    (Built /\ qnum >= 1) =>
        LET size == 2 * qnum + qnum * (qnum - 1)
            qubits == 0..(qnum - 1)
            expected == {<< <<q>>, g >> : q \in qubits, g \in {"h", "x"}}
                        \cup {<< <<ct[1], ct[2]>>, "cx" >> :
                                 ct \in {p \in qubits \X qubits : p[1] # p[2]}}
        IN  /\ DOMAIN moves = 0..(size - 1)
            /\ Cardinality(DOMAIN moves) = size
            /\ {moves[k] : k \in DOMAIN moves} = expected
            /\ \A j, k \in DOMAIN moves : moves[j] = moves[k] => j = k
            /\ \A k \in DOMAIN moves :
                  /\ \A p \in 1..Len(moves[k][1]) : moves[k][1][p] \in qubits
                  /\ (moves[k][2] = "cx" => moves[k][1][1] # moves[k][1][2])

C2_Witness ==
    /\ qnum = 4 /\ Cardinality(DOMAIN moves) = 20
    /\ Played /\ call.arg = 19 /\ moves[19] = << <<3, 2>>, "cx" >>

\* C3: right after construction, before any move or reset, the register is
\* the equal superposition over all 2^N indices.
C3_InitSuperposition ==
    (call.op = "__init__" /\ call.error = "" /\ qnum >= 1) =>
        \A psi \in Registers(circuit.ops) :
            \A i \in Indices(qnum) : psi.e = qnum /\ Abs(Amp(psi, i)) = 1

\* C4: a reset, after any calls, leaves the register in the equal
\* superposition with no earlier gate or measurement, returns that snapshot
\* (the same at every reset), empties status_id and changes neither the
\* qubit count nor the move table nor the outcome table.
C4_Reset ==
    [][call'.op = "reset" =>
          /\ NoMeasure(circuit'.ops)
          /\ \A psi \in Registers(circuit'.ops) : Uniform(psi)
          /\ call'.result = [i \in Indices(qnum) |-> Round2(1, qnum)]
          /\ \A i \in Indices(qnum) : WithinHalfCent(1, qnum, call'.result[i])
          /\ status_id' = <<>>
          /\ qnum' = qnum /\ moves' = moves /\ endings_lookuptable' = endings_lookuptable]_vars

C4_Witness ==
    /\ call.op = "reset" /\ qnum = 4 /\ status_id = <<>>
    /\ call.result = [i \in Indices(4) |-> 25]

\* C5: step(a), a in the move table, appends exactly the instruction stored
\* under a after the instructions already in the circuit, and returns the
\* snapshot of the register with that gate applied last, the cost -0.1 and
\* done = False.
C5_Step ==
    /\ [][(call'.op = "step" /\ call'.error = "") =>
            /\ call'.arg \in DOMAIN moves
            /\ circuit'.ops = Append(circuit.ops, [gate |-> moves[call'.arg][2],
                                                  qargs |-> moves[call'.arg][1]])
            /\ circuit'.clbits = circuit.clbits
            /\ 10 * call'.result.reward.num = -1 * call'.result.reward.den
            /\ call'.result.done = FALSE]_vars
    /\ [](call.op = "step" /\ call.error = "" =>
            \E psi \in Registers(DropLast(circuit.ops, 1)) :
                call.result.new_state = Around(ApplyGate(psi, circuit.ops[Len(circuit.ops)])))

C5_Witness ==
    /\ call.op = "step" /\ call.error = "" /\ moves[call.arg][2] = "cx"
    /\ NumCalls = 2 /\ call.result.done = FALSE

\* C6: a collapse of a register that was reset and moved returns an index of
\* [0, 2^N) whose amplitude just before the collapse is not zero.
C6_Collapse ==
    (call.op = "collapse_board" /\ NumMeasures(circuit) = 1) =>
        /\ call.result \in Indices(qnum)
        /\ \A psi \in Registers(DropLast(circuit.ops, 1)) : Amp(psi, call.result) # 0

C6_Witness ==
    /\ call.op = "collapse_board" /\ NumMeasures(circuit) = 1
    /\ circuit.clbits = qnum /\ Len(circuit.ops) = qnum + 2
    /\ call.result # 0
    /\ \E psi \in Registers(DropLast(circuit.ops, 1)) : \E i \in Indices(qnum) : Amp(psi, i) = 0

\* C7 as claimed: the sum of the squares of the snapshot returned by step or
\* reset is within 1e-6 of 1.
C7_SnapshotUnitNorm ==
    /\ (call.op = "reset" /\ NoMeasure(circuit.ops)) =>
          100 * Abs(SumSq(call.result) - 10000) <= 1
    /\ (call.op = "step" /\ call.error = "" /\ NoMeasure(circuit.ops)) =>
          100 * Abs(SumSq(call.result.new_state) - 10000) <= 1

\* C7 as amended: the amplitude vector of the circuit has unit norm, and the
\* snapshot returned by step or reset is that vector with every amplitude
\* rounded to two decimals, so within 0.005 of it.
C7_RoundedUnitVector ==
    /\ Built => \A psi \in Registers(circuit.ops) : SumSqOn(psi.v, DOMAIN psi.v) = Pow2(psi.e)
    /\ (call.op = "reset" \/ (call.op = "step" /\ call.error = "")) =>
          LET snapshot == IF call.op = "reset" THEN call.result ELSE call.result.new_state
          IN  \E psi \in Registers(circuit.ops) :
                  \A i \in Indices(qnum) : WithinHalfCent(Amp(psi, i), psi.e, snapshot[i])

C7_Witness ==
    /\ call.op = "step" /\ call.error = "" /\ NoMeasure(circuit.ops)
    /\ SumSq(call.result.new_state) # 10000

\* C8: on a register without measurement, the PauliX(q) move (identifier
\* 2q + 1) exchanges the amplitudes of every two indices that differ in bit q
\* only, and two PauliX(q) moves in succession give back the amplitude vector.
C8_PauliXTwice ==
    \A q \in 0..(qnum - 1) :
        (Played /\ call.arg = 2 * q + 1 /\ NoMeasure(circuit.ops)) =>
            LET ops == circuit.ops
                n == Len(ops)
            IN  /\ \A after \in Registers(ops) : \A before \in Registers(DropLast(ops, 1)) :
                      /\ after.e = before.e
                      /\ \A i \in Indices(qnum) : Amp(after, i) = Amp(before, Flip(i, q))
                /\ (n >= 2 /\ ops[n - 1] = ops[n]) =>
                      Registers(ops) = Registers(DropLast(ops, 2))

C8_Witness ==
    /\ Played /\ call.op = "step" /\ call.arg = 3 /\ circuit.clbits = qnum /\ qnum = 4
    /\ Len(circuit.ops) = qnum + 2
    /\ circuit.ops[qnum + 1] = circuit.ops[qnum + 2]
    /\ NoMeasure(circuit.ops)

\* C9: a move or step with an identifier that is no key of the move table
\* raises and changes nothing: the circuit and the move log are as before.
C9_FailedMoveNoEffect ==
    [][(call'.op \in {"move", "step"} /\ call'.error # "") =>
          /\ circuit' = circuit
          /\ status_id' = status_id
          /\ qnum' = qnum /\ moves' = moves /\ endings_lookuptable' = endings_lookuptable]_vars

\* C10: construction with a linear dimension < 1 raises InvalidDimension and
\* builds neither register nor table.
C10_InvalidDimension ==
    (call.op = "__init__" /\ call.arg < 1) =>
        /\ call.error = "InvalidDimension"
        /\ DOMAIN moves = {}
        /\ \A w \in {0, 1, 2} : endings_lookuptable[w] = <<>>
====
